---------------------------- MODULE Spec2Model ----------------------------
(***************************************************************************)
(* Model of download-latest.ts (GitHub latest-release downloader).         *)
(*                                                                         *)
(* Two revisions of the script live in the source file: the keyword        *)
(* variant (lines 1-259, fzf selection) and the structured-option variant  *)
(* (lines 261-475, --arch/--type/--name, first match wins).                *)
(*                                                                         *)
(* Strings are sequences of one-character strings, so that toLowerCase,    *)
(* includes, endsWith, trim and the regular expression are computed        *)
(* character by character.  A byte count is a sequence of base-1024        *)
(* digits, least significant first (TLC integers are 32 bits wide and a    *)
(* byte count of 1024^4 does not fit in one); the JavaScript number        *)
(* size = bytes / 1024^k is exact for these values, so the model computes  *)
(* it exactly from the digits.                                             *)
(***************************************************************************)
EXTENDS Integers, Sequences, FiniteSets, TLC

VARIABLES
    variant,        \* "keyword" | "structured" | "format": which code runs
    repoUrl,        \* argument of downloadLatest
    options,        \* argument of downloadLatest (MatchOptions)
    pc,             \* position of downloadLatest between its awaits
    apiUrl,         \* const apiUrl
    release,        \* release.assets as returned by the API
    matchedAssets,  \* const matchedAssets
    selected,       \* the asset handed to downloadAsset (or NoAsset)
    fzfOptions,     \* const options of selectAsset (the labels)
    events,         \* everything observable, in order
    exitCode,       \* -1 while running, then the process exit status
    fBytes,         \* formatSize: parameter bytes
    fUnitIndex,     \* formatSize: let unitIndex
    fPc,            \* formatSize: "idle" | "loop" | "done"
    fOut            \* formatSize: the returned string

vars == <<variant, repoUrl, options, pc, apiUrl, release, matchedAssets,
          selected, fzfOptions, events, exitCode, fBytes, fUnitIndex, fPc, fOut>>

flowVars == <<repoUrl, options, pc, apiUrl, release, matchedAssets,
              selected, fzfOptions, events, exitCode>>

formatVars == <<fBytes, fUnitIndex, fPc, fOut>>

---------------------------------------------------------------------------
(* Bounds of the model *)

\* longest release.assets list
MaxAssets == 2

\* largest most-significant base-1024 digit of a byte count given to formatSize
MaxTopDigit == 1

---------------------------------------------------------------------------
(* Strings *)

UpperLetters == <<"A", "B", "C", "D", "E", "F", "G", "H", "I", "J", "K", "L", "M",
                  "N", "O", "P", "Q", "R", "S", "T", "U", "V", "W", "X", "Y", "Z">>

LowerLetters == <<"a", "b", "c", "d", "e", "f", "g", "h", "i", "j", "k", "l", "m",
                  "n", "o", "p", "q", "r", "s", "t", "u", "v", "w", "x", "y", "z">>

\* String.prototype.toLowerCase on one character
LowerChar(c) ==
    IF \E i \in DOMAIN UpperLetters : UpperLetters[i] = c
    THEN LowerLetters[CHOOSE i \in DOMAIN UpperLetters : UpperLetters[i] = c]
    ELSE c

\* String.prototype.toLowerCase
ToLowerCase(s) == [i \in 1..Len(s) |-> LowerChar(s[i])]

\* does t occur in s at offset i (0-based)
OccursAt(s, t, i) ==
    /\ i + Len(t) <= Len(s)
    /\ \A j \in 1..Len(t) : s[i + j] = t[j]

RECURSIVE IndexOfFrom(_, _, _)
\* String.prototype.indexOf scanning from offset i; -1 when absent
IndexOfFrom(s, t, i) ==
    IF i + Len(t) > Len(s) THEN -1
    ELSE IF OccursAt(s, t, i) THEN i
    ELSE IndexOfFrom(s, t, i + 1)

\* String.prototype.includes
Includes(s, t) == IndexOfFrom(s, t, 0) >= 0

\* String.prototype.endsWith
EndsWith(s, t) == Len(t) <= Len(s) /\ OccursAt(s, t, Len(s) - Len(t))

WhiteSpace == {" ", "\n", "\t"}

RECURSIVE TrimStart(_)
TrimStart(s) == IF s # <<>> /\ Head(s) \in WhiteSpace THEN TrimStart(Tail(s)) ELSE s

RECURSIVE TrimEnd(_)
TrimEnd(s) ==
    IF s # <<>> /\ s[Len(s)] \in WhiteSpace THEN TrimEnd(SubSeq(s, 1, Len(s) - 1)) ELSE s

\* String.prototype.trim
Trim(s) == TrimEnd(TrimStart(s))

DigitChars == <<"0", "1", "2", "3", "4", "5", "6", "7", "8", "9">>

RECURSIVE Decimal(_)
\* decimal digits of a natural number
Decimal(n) ==
    IF n < 10 THEN <<DigitChars[n + 1]>>
    ELSE Decimal(n \div 10) \o <<DigitChars[(n % 10) + 1]>>

---------------------------------------------------------------------------
(* formatSize *)

units == << <<"B">>, <<"K", "B">>, <<"M", "B">>, <<"G", "B">> >>

\* the divisor of `size /= 1024`
Kilo == 1024

Digit(bytes, i) == IF i >= 1 /\ i <= Len(bytes) THEN bytes[i] ELSE 0

\* size >= 1024, where size = bytes / 1024^k
SizeAtLeastKilo(bytes, k) == \E i \in (k + 2)..Len(bytes) : bytes[i] # 0

\* the loop condition of formatSize
LoopCond(bytes, k) == SizeAtLeastKilo(bytes, k) /\ k < Len(units) - 1

RECURSIVE UnitIndexFrom(_, _)
\* the value of unitIndex when the loop ends, started at k
UnitIndexFrom(bytes, k) ==
    IF LoopCond(bytes, k) THEN UnitIndexFrom(bytes, k + 1) ELSE k

RECURSIVE WholeFrom(_, _)
\* integer part of size = bytes / 1024^k: the digits above the k-th
WholeFrom(bytes, i) ==
    IF i > Len(bytes) THEN 0 ELSE bytes[i] + Kilo * WholeFrom(bytes, i + 1)

Whole(bytes, k) == WholeFrom(bytes, k + 1)

\* floor(20 * 1024 * frac), frac the fractional part of bytes / 1024^k;
\* exact: frac = d[k]/1024 + d[k-1]/1024^2 + d[k-2]/1024^3
Frac20480(bytes, k) ==
    20 * Digit(bytes, k)
      + (20 * (Kilo * Digit(bytes, k - 1) + Digit(bytes, k - 2))) \div (Kilo * Kilo)

\* Number.prototype.toFixed(1) of size, in tenths: truncation instead of rounding
TenthsTruncated(bytes, k) == 10 * Whole(bytes, k) + Frac20480(bytes, k) \div (2 * Kilo)

\* Number.prototype.toFixed(1) of size, in tenths: floor(10 * size + 1/2)
Tenths(bytes, k) == 10 * Whole(bytes, k) + (Frac20480(bytes, k) + Kilo) \div (2 * Kilo)

\* `${size.toFixed(1)} ${units[unitIndex]}`
Render(bytes, k) ==
    Decimal(Tenths(bytes, k) \div 10) \o <<".">> \o Decimal(Tenths(bytes, k) % 10)
        \o <<" ">> \o units[k + 1]

FormatSize(bytes) == Render(bytes, UnitIndexFrom(bytes, 0))

\* byte counts given to formatSize: every digit from a set of edge values
EdgeDigits == {0, 1, 51, 52, 512, 972, 973, 1023}

FormatInputs ==
    {<<d1, d2, d3, d4, d5>> :
        d1 \in EdgeDigits, d2 \in {0, 512, 1023}, d3 \in {0, 1, 1023},
        d4 \in {0, 1, 1023}, d5 \in 0..MaxTopDigit}


---------------------------------------------------------------------------
(* convertToApiUrl: /github\.com\/([^\/]+)\/([^\/]+)/ *)

GithubComSlash == <<"g", "i", "t", "h", "u", "b", ".", "c", "o", "m", "/">>

ApiPrefix == <<"h", "t", "t", "p", "s", ":", "/", "/", "a", "p", "i", ".", "g", "i", "t",
               "h", "u", "b", ".", "c", "o", "m", "/", "r", "e", "p", "o", "s", "/">>

ApiSuffix == <<"/", "r", "e", "l", "e", "a", "s", "e", "s", "/", "l", "a", "t", "e", "s", "t">>

RECURSIVE RunLength(_, _)
\* [^\/]+ is greedy: the number of non-slash characters from offset p (0-based)
RunLength(s, p) ==
    IF p < Len(s) /\ s[p + 1] # "/" THEN 1 + RunLength(s, p + 1) ELSE 0

NoMatch == [matched |-> FALSE, owner |-> <<>>, repo |-> <<>>]

\* the regular expression without its second group: /github\.com\/([^\/]+)/
RegexAtOwnerOnly(s, i) ==
    LET p == i + Len(GithubComSlash)
        n == RunLength(s, p)
    IN  IF OccursAt(s, GithubComSlash, i) /\ n >= 1
        THEN [matched |-> TRUE, owner |-> SubSeq(s, p + 1, p + n), repo |-> <<>>]
        ELSE NoMatch

\* the regular expression tried at offset i (0-based)
RegexAt(s, i) ==
    LET p == i + Len(GithubComSlash)
        n == RunLength(s, p)
        q == p + n + 1
        m == RunLength(s, q)
    IN  IF /\ OccursAt(s, GithubComSlash, i)
           /\ n >= 1
           /\ p + n < Len(s) /\ s[p + n + 1] = "/"
           /\ m >= 1
        THEN [matched |-> TRUE, owner |-> SubSeq(s, p + 1, p + n),
              repo |-> SubSeq(s, q + 1, q + m)]
        ELSE NoMatch

RECURSIVE RegexFrom(_, _)
\* String.prototype.match: the leftmost offset at which the expression matches
RegexFrom(s, i) ==
    IF i > Len(s) THEN NoMatch
    ELSE IF RegexAt(s, i).matched THEN RegexAt(s, i)
    ELSE RegexFrom(s, i + 1)

RegexMatch(s) == RegexFrom(s, 0)

\* `https://api.github.com/repos/${owner}/${repo}/releases/latest`
ApiUrlOf(m) == ApiPrefix \o m.owner \o <<"/">> \o m.repo \o ApiSuffix

RepoUrls ==
    { <<"h", "t", "t", "p", "s", ":", "/", "/", "g", "i", "t", "h", "u", "b", ".", "c", "o", "m", "/", "o", "/", "r">>,
      <<"g", "i", "t", "h", "u", "b", ".", "c", "o", "m", "/", "o", "/", "r", "/", "r", "e", "l", "e", "a", "s", "e", "s">>,
      <<"h", "t", "t", "p", "s", ":", "/", "/", "g", "i", "t", "h", "u", "b", ".", "c", "o", "m", "/", "o">>,
      <<"h", "t", "t", "p", "s", ":", "/", "/", "g", "i", "t", "h", "u", "b", ".", "c", "o", "m", "/", "o", "/">>,
      <<"h", "t", "t", "p", "s", ":", "/", "/", "g", "i", "t", "h", "u", "b", ".", "c", "o", "m", "/", "/", "r">>,
      <<"h", "t", "t", "p", "s", ":", "/", "/", "g", "i", "t", "h", "u", "b", "X", "c", "o", "m", "/", "o", "/", "r">>,
      <<"g", "i", "t", "l", "a", "b", ".", "c", "o", "m", "/", "o", "/", "r">>,
      <<>> }

---------------------------------------------------------------------------
(* filterAssets *)

\* keyword variant, line 30
defaultArch ==
    << <<"x", "6", "4">>, <<"a", "m", "d", "6", "4">>, <<"a", "r", "m", "6", "4">>,
       <<"a", "a", "r", "c", "h", "6", "4">>, <<"x", "8", "6", "_", "6", "4">>,
       <<"u", "n", "i", "v", "e", "r", "s", "a", "l">> >>

\* structured variant, line 292
defaultArchS ==
    << <<"x", "6", "4">>, <<"a", "m", "d", "6", "4">>, <<"a", "r", "m", "6", "4">>,
       <<"u", "n", "i", "v", "e", "r", "s", "a", "l">> >>

defaultFileTypes ==
    << <<".", "z", "i", "p">>, <<".", "t", "a", "r", ".", "g", "z">>, <<".", "e", "x", "e">>,
       <<".", "d", "m", "g">>, <<".", "d", "e", "b">>, <<".", "r", "p", "m">>,
       <<".", "A", "p", "p", "I", "m", "a", "g", "e">> >>

RECURSIVE KeepInOrder(_, _, _)
\* Array.prototype.filter: the elements at the indices of keep, from index i on, in order
KeepInOrder(assets, keep, i) ==
    IF i > Len(assets) THEN <<>>
    ELSE (IF i \in keep THEN <<assets[i]>> ELSE <<>>) \o KeepInOrder(assets, keep, i + 1)

\* types.some(type => name.endsWith(type.toLowerCase()))
TypeMatch(name, types) == \E i \in DOMAIN types : EndsWith(name, ToLowerCase(types[i]))

\* arch.some(a => name.includes(a.toLowerCase()))
SomeIncluded(name, words) == \E i \in DOMAIN words : Includes(name, ToLowerCase(words[i]))

\* an architecture clause that requires a token
ArchMatchRequired(name) == SomeIncluded(name, defaultArch)

\* const archMatch = !hasArchKeyword || this.defaultArch.some(...)
ArchMatch(name) ==
    LET hasArchKeyword == SomeIncluded(name, defaultArch)
    IN  ~hasArchKeyword \/ SomeIncluded(name, defaultArch)

\* filters.some(...) in place of filters.every(...)
AnyFilterIncluded(name, filters) ==
    \E i \in DOMAIN filters : Includes(name, ToLowerCase(filters[i]))

\* filters.every(filter => name.includes(filter.toLowerCase()))
EveryFilterIncluded(name, filters) ==
    \A i \in DOMAIN filters : Includes(name, ToLowerCase(filters[i]))

\* keyword variant: const { filters = [] } = options
FiltersOf(opts) == IF opts.hasFilters THEN opts.filters ELSE <<>>

\* keyword variant filterAssets
FilterAssets(assets, opts) ==
    LET filters == FiltersOf(opts)
        name(i) == ToLowerCase(assets[i].name)
    IN  IF Len(filters) = 0
        THEN KeepInOrder(assets,
                 {i \in DOMAIN assets :
                     TypeMatch(name(i), defaultFileTypes) /\ ArchMatch(name(i))}, 1)
        ELSE KeepInOrder(assets,
                 {i \in DOMAIN assets : EveryFilterIncluded(name(i), filters)}, 1)

\* structured variant: the three predicates joined by OR on the last two
StructuredKeepLoose(n, arch, fileTypes, fileNames) ==
    /\ TypeMatch(n, fileTypes)
    /\ \/ SomeIncluded(n, arch)
       \/ Len(fileNames) = 0 \/ SomeIncluded(n, fileNames)

\* structured variant: the callback of assets.filter
StructuredKeep(n, arch, fileTypes, fileNames) ==
    IF ~TypeMatch(n, fileTypes) THEN FALSE
    ELSE LET archMatch == SomeIncluded(n, arch)
             nameMatch == Len(fileNames) = 0 \/ SomeIncluded(n, fileNames)
         IN  archMatch /\ nameMatch

\* structured variant filterAssets
FilterAssetsS(assets, opts) ==
    LET arch == IF opts.hasArch THEN opts.arch ELSE defaultArchS
        fileTypes == IF opts.hasFileTypes THEN opts.fileTypes ELSE defaultFileTypes
        fileNames == IF opts.hasFileNames THEN opts.fileNames ELSE <<>>
    IN  KeepInOrder(assets,
            {i \in DOMAIN assets :
                StructuredKeep(ToLowerCase(assets[i].name), arch, fileTypes, fileNames)}, 1)

---------------------------------------------------------------------------
(* selectAsset helpers *)

\* `${asset.name} (${this.formatSize(asset.size)})`
Label(asset) == asset.name \o <<" ", "(">> \o FormatSize(asset.size) \o <<")">>

Labels(assets) == [i \in 1..Len(assets) |-> Label(assets[i])]

\* options.findIndex(option => option === selectedLine), 1-based; 0 when absent
FindIndex(opts, line) ==
    IF \E i \in DOMAIN opts : opts[i] = line
    THEN CHOOSE i \in DOMAIN opts : opts[i] = line /\ \A j \in DOMAIN opts : opts[j] = line => i <= j
    ELSE 0

---------------------------------------------------------------------------
(* Inputs: what the GitHub API may return and what the caller may pass *)

NoAsset == [name |-> <<>>, size |-> <<0, 0, 0, 0, 0>>, url |-> "none"]

\* GitHubAsset, reduced to name, size and browser_download_url.
\* u1 and u5 carry the same name and sizes that format alike (1.5 MB).
CandidateAssets ==
    { [name |-> <<"a", "-", "x", "6", "4", ".", "z", "i", "p">>,
       size |-> <<0, 512, 1, 0, 0>>, url |-> "u1"],
      [name |-> <<"a", "-", "a", "r", "m", "6", "4", ".", "Z", "I", "P">>,
       size |-> <<1023, 1023, 0, 0, 0>>, url |-> "u2"],
      [name |-> <<"t", ".", "A", "p", "p", "I", "m", "a", "g", "e">>,
       size |-> <<0, 0, 0, 0, 0>>, url |-> "u3"],
      [name |-> <<"d", ".", "p", "d", "f">>,
       size |-> <<1023, 0, 0, 0, 0>>, url |-> "u4"],
      [name |-> <<"a", "-", "x", "6", "4", ".", "z", "i", "p">>,
       size |-> <<1, 512, 1, 0, 0>>, url |-> "u5"],
      [name |-> <<"x", "6", "4", ".", "t", "x", "t">>,
       size |-> <<0, 1, 0, 0, 0>>, url |-> "u6"],
      [name |-> <<"b", "-", "A", "R", "M", "6", "4", ".", "t", "a", "r", ".", "g", "z">>,
       size |-> <<0, 0, 0, 1, 0>>, url |-> "u7"] }

\* release.assets: every list of at most MaxAssets candidate assets
Releases == UNION {[1..n -> CandidateAssets] : n \in 0..MaxAssets}

KeywordFilters ==
    { <<>>,
      << <<"x", "6", "4">> >>,
      << <<"a", "r", "m", "6", "4">> >>,
      << <<"A", "R", "M", "6", "4">> >>,
      << <<"a", "r", "m", "6", "4">>, <<".", "z", "i", "p">> >>,
      << <<"a", "-">>, <<".", "Z", "I", "P">> >>,
      << <<"w", "i", "n", "d", "o", "w", "s">> >> }

\* MatchOptions of the keyword variant; hasFilters = FALSE is `options = {}`
KeywordOptions ==
    {[hasFilters |-> FALSE, filters |-> <<>>]}
        \cup {[hasFilters |-> TRUE, filters |-> f] : f \in KeywordFilters}

ArchChoices == { << <<"a", "r", "m", "6", "4">> >>, << <<"X", "6", "4">>, <<"a", "m", "d", "6", "4">> >> }

TypeChoices == { << <<".", "Z", "I", "P">>, <<".", "p", "d", "f">> >> }

NameChoices == { << <<"A", "-">>, <<"d">> >> }

Optional(choices) ==
    {[has |-> FALSE, val |-> <<>>]} \cup {[has |-> TRUE, val |-> c] : c \in choices}

\* MatchOptions of the structured variant; has* = FALSE is an absent option
StructuredOptions ==
    {[hasArch |-> a.has, arch |-> a.val,
      hasFileTypes |-> t.has, fileTypes |-> t.val,
      hasFileNames |-> n.has, fileNames |-> n.val] :
        a \in Optional(ArchChoices), t \in Optional(TypeChoices), n \in Optional(NameChoices)}

---------------------------------------------------------------------------
(* Observable events *)

Ev(kind, tag, asset) == [kind |-> kind, tag |-> tag, asset |-> asset]

Log(tag) == Ev("log", tag, NoAsset)

\* console.error('❌ 下载失败:', ...); process.exit(1)
Failed(tag) == <<Ev("error", tag, NoAsset)>>

\* listAvailableAssets: one line per asset, in order
Listing(assets) == [i \in 1..Len(assets) |-> Ev("log", "list", assets[i])]

\* the first lines of downloadAsset, up to the await of fetch
DownloadStart(asset) == <<Ev("log", "start", asset), Ev("request", "asset", asset)>>

---------------------------------------------------------------------------
(* downloadLatest, one action per stretch of code between two awaits *)

Outcomes == {"ok", "non2xx", "neterr"}

\* a check that lets a non-2xx response through
ResponseOkUnchecked(outcome) == outcome # "neterr"

\* fetch resolved and response.ok holds
ResponseOk(outcome) == outcome = "ok"

\* a branch that always asks the selector
BranchAlwaysSelect(m) == IF Len(m) = 0 THEN "none" ELSE "many"

\* the branch on matchedAssets.length in downloadLatest
Branch(m) ==
    IF Len(m) = 0 THEN "none"
    ELSE IF Len(m) = 1 THEN "one"
    ELSE "many"

\* a selection that falls back to the first option when nothing was chosen
SelectedIndexDefaultFirst(code, output, opts) ==
    IF code = 0 /\ Trim(output) # <<>> THEN FindIndex(opts, Trim(output)) ELSE 1

\* selectAsset after proc.exited: the 1-based index of the returned asset, 0 for null
SelectedIndex(code, output, opts) ==
    IF code # 0 THEN 0
    ELSE LET selectedLine == Trim(output)
         IN  IF selectedLine = <<>> THEN 0 ELSE FindIndex(opts, selectedLine)

\* the process ends: return from downloadLatest (0) or process.exit(1)
Finish(ev, code) ==
    /\ events' = ev
    /\ pc' = "done"
    /\ exitCode' = code

\* downloadAsset up to its first await
BeginDownload(ev, asset) ==
    /\ events' = ev \o DownloadStart(asset)
    /\ selected' = asset
    /\ pc' = "awaitDownload"
    /\ UNCHANGED exitCode

\* lines 38-42: convertToApiUrl, then the request of fetchLatestRelease
Start ==
    /\ variant \in {"keyword", "structured"}
    /\ pc = "start"
    /\ LET m == RegexMatch(repoUrl)
       IN  IF ~m.matched
           THEN /\ Finish(events \o Failed("invalidUrl"), 1)
                /\ UNCHANGED apiUrl
           ELSE /\ apiUrl' = ApiUrlOf(m)
                /\ events' = events \o <<Log("fetching"), Ev("request", "api", NoAsset)>>
                /\ pc' = "awaitRelease"
                /\ UNCHANGED exitCode
    /\ UNCHANGED <<variant, repoUrl, options, release, matchedAssets, selected, fzfOptions>>
    /\ UNCHANGED formatVars

\* a catch block that reports the failure and returns without process.exit(1)
ReleaseFailedSwallowed(outcome, jsonOk) ==
    /\ ~ResponseOk(outcome) \/ ~jsonOk
    /\ Finish(events \o <<Ev("response", outcome, NoAsset)>> \o Failed("api"), 0)
    /\ UNCHANGED <<release, matchedAssets, selected, fzfOptions>>

\* fetchLatestRelease failed: fetch rejected, response not ok, or the body is no JSON
ReleaseFailed(outcome, jsonOk) ==
    /\ ~ResponseOk(outcome) \/ ~jsonOk
    /\ Finish(events \o <<Ev("response", outcome, NoAsset)>> \o Failed("api"), 1)
    /\ UNCHANGED <<release, matchedAssets, selected, fzfOptions>>

\* keyword variant, lines 43-67 after the release arrived; Bun.spawn may throw
\* (fzf not installed), which selectAsset catches
ProceedKeyword(ev, r) ==
    /\ release' = r
    /\ IF Len(r) = 0
       THEN /\ Finish(ev \o <<Log("noAssets")>>, 0)
            /\ UNCHANGED <<matchedAssets, selected, fzfOptions>>
       ELSE LET m == FilterAssets(r, options)
                b == Branch(m)
            IN  /\ matchedAssets' = m
                /\ CASE b = "none" ->
                          /\ Finish(ev \o <<Log("noMatch")>> \o Listing(r), 0)
                          /\ UNCHANGED <<selected, fzfOptions>>
                     [] b = "one" ->
                          /\ BeginDownload(ev, m[1])
                          /\ UNCHANGED fzfOptions
                     [] b = "many" ->
                          /\ fzfOptions' = Labels(m)
                          /\ UNCHANGED selected
                          /\ \E spawned \in BOOLEAN :
                                IF spawned
                                THEN /\ events' = ev \o <<Log("selecting"),
                                                          Ev("spawn", "fzf", NoAsset)>>
                                     /\ pc' = "awaitSelector"
                                     /\ UNCHANGED exitCode
                                ELSE Finish(ev \o <<Log("selecting"),
                                                    Ev("spawn", "failed", NoAsset),
                                                    Ev("error", "fzfFailed", NoAsset),
                                                    Log("hint"), Log("cancelled")>>, 0)

\* keyword variant: the response of the releases API
ReleaseResponse ==
    /\ variant = "keyword"
    /\ pc = "awaitRelease"
    /\ \E outcome \in Outcomes, jsonOk \in BOOLEAN :
          \/ ReleaseFailed(outcome, jsonOk)
          \/ /\ ResponseOk(outcome) /\ jsonOk
             /\ \E r \in Releases :
                   ProceedKeyword(events \o <<Ev("response", outcome, NoAsset), Log("found")>>,
                                  r)
    /\ UNCHANGED <<variant, repoUrl, options, apiUrl>>
    /\ UNCHANGED formatVars

\* what fzf may do once spawned: exit code, stdout, and the line the user took
\* (the event of the selector is tagged "unreadable" when reading stdout throws)
FzfResults ==
    {[code |-> c, out |-> <<>>, pick |-> 0, tag |-> "nonzero"] : c \in {1, 2, 130}}
      \cup {[code |-> 0, out |-> <<>>, pick |-> 0, tag |-> "empty"],
            [code |-> 0, out |-> <<"\n">>, pick |-> 0, tag |-> "blank"],
            [code |-> 0, out |-> <<"?", "\n">>, pick |-> 0, tag |-> "foreign"]}
      \cup {[code |-> 0, out |-> fzfOptions[i] \o <<"\n">>, pick |-> i, tag |-> "picked"] :
               i \in DOMAIN fzfOptions}

\* keyword variant, selectAsset lines 185-207 and downloadLatest lines 62-66
SelectorExited ==
    /\ variant = "keyword"
    /\ pc = "awaitSelector"
    /\ \E res \in FzfResults, readOk \in BOOLEAN :
          LET unread == res.code = 0 /\ ~readOk
              ev == events \o <<Ev("selector", IF unread THEN "unreadable" ELSE res.tag,
                                   IF res.pick = 0 \/ unread THEN NoAsset
                                   ELSE matchedAssets[res.pick])>>
              idx == SelectedIndex(res.code, res.out, fzfOptions)
          IN  IF res.code # 0
              THEN /\ Finish(ev \o <<Log("cancelledSelect"), Log("cancelled")>>, 0)
                   /\ UNCHANGED selected
              ELSE IF ~readOk
              THEN /\ Finish(ev \o <<Ev("error", "fzfFailed", NoAsset),
                                     Log("hint"), Log("cancelled")>>, 0)
                   /\ UNCHANGED selected
              ELSE IF idx = 0
              THEN /\ Finish(ev \o <<Log("cancelled")>>, 0)
                   /\ UNCHANGED selected
              ELSE BeginDownload(ev, matchedAssets[idx])
    /\ UNCHANGED <<variant, repoUrl, options, apiUrl, release, matchedAssets, fzfOptions>>
    /\ UNCHANGED formatVars

\* downloadAsset lines 132-142 after fetch settled
DownloadResponse ==
    /\ variant \in {"keyword", "structured"}
    /\ pc = "awaitDownload"
    /\ \E outcome \in Outcomes, bodyOk \in BOOLEAN, writeOk \in BOOLEAN :
          LET ev == events \o <<Ev("response", outcome, selected)>>
          IN  IF ~ResponseOk(outcome) THEN Finish(ev \o Failed("download"), 1)
              ELSE IF ~bodyOk THEN Finish(ev \o Failed("body"), 1)
              ELSE IF ~writeOk
              THEN Finish(ev \o <<Ev("writeFailed", "file", selected)>> \o Failed("write"), 1)
              ELSE Finish(ev \o <<Ev("write", "file", selected),
                                  Ev("log", "complete", selected)>>, 0)
    /\ UNCHANGED <<variant, repoUrl, options, apiUrl, release, matchedAssets, selected,
                   fzfOptions>>
    /\ UNCHANGED formatVars

\* structured variant, lines 305-330 after the release arrived
ProceedStructured(ev, r) ==
    /\ release' = r
    /\ UNCHANGED fzfOptions
    /\ IF Len(r) = 0
       THEN /\ Finish(ev \o <<Log("noAssets")>>, 0)
            /\ UNCHANGED <<matchedAssets, selected>>
       ELSE LET m == FilterAssetsS(r, options)
            IN  /\ matchedAssets' = m
                /\ IF Len(m) = 0
                   THEN /\ Finish(ev \o <<Log("noMatch")>> \o Listing(r), 0)
                        /\ UNCHANGED selected
                   ELSE IF Len(m) = 1
                   THEN BeginDownload(ev, m[1])
                   ELSE BeginDownload(ev \o <<Log("count")>> \o Listing(m) \o <<Log("auto")>>,
                                      m[1])

\* structured variant: the response of the releases API
ReleaseResponseS ==
    /\ variant = "structured"
    /\ pc = "awaitRelease"
    /\ \E outcome \in Outcomes, jsonOk \in BOOLEAN :
          \/ ReleaseFailed(outcome, jsonOk)
          \/ /\ ResponseOk(outcome) /\ jsonOk
             /\ \E r \in Releases :
                   ProceedStructured(
                       events \o <<Ev("response", outcome, NoAsset), Log("found")>>, r)
    /\ UNCHANGED <<variant, repoUrl, options, apiUrl>>
    /\ UNCHANGED formatVars

FormatIdle ==
    /\ fBytes = <<0, 0, 0, 0, 0>>
    /\ fUnitIndex = 0
    /\ fPc = "idle"
    /\ fOut = <<>>

Init ==
    /\ variant \in {"keyword", "structured"}
    /\ repoUrl \in RepoUrls
    /\ options \in (IF variant = "keyword" THEN KeywordOptions ELSE StructuredOptions)
    /\ pc = "start"
    /\ apiUrl = <<>>
    /\ release = <<>>
    /\ matchedAssets = <<>>
    /\ selected = NoAsset
    /\ fzfOptions = <<>>
    /\ events = <<>>
    /\ exitCode = -1
    /\ FormatIdle

Next ==
    \/ Start
    \/ ReleaseResponse
    \/ ReleaseResponseS
    \/ SelectorExited
    \/ DownloadResponse

Spec == Init /\ [][Next]_vars

---------------------------------------------------------------------------
(* formatSize on its own: the loop, one iteration per step *)

\* while (size >= 1024 && unitIndex < units.length - 1) { size /= 1024; unitIndex++; }
FormatLoopStep ==
    /\ fPc = "loop"
    /\ LoopCond(fBytes, fUnitIndex)
    /\ fUnitIndex' = fUnitIndex + 1
    /\ UNCHANGED <<fBytes, fPc, fOut>>
    /\ UNCHANGED <<variant, flowVars>>

\* return `${size.toFixed(1)} ${units[unitIndex]}`
FormatReturn ==
    /\ fPc = "loop"
    /\ ~LoopCond(fBytes, fUnitIndex)
    /\ fOut' = Render(fBytes, fUnitIndex)
    /\ fPc' = "done"
    /\ UNCHANGED <<fBytes, fUnitIndex>>
    /\ UNCHANGED <<variant, flowVars>>

FormatInit ==
    /\ variant = "format"
    /\ repoUrl = <<>>
    /\ options = [hasFilters |-> FALSE, filters |-> <<>>]
    /\ pc = "idle"
    /\ apiUrl = <<>>
    /\ release = <<>>
    /\ matchedAssets = <<>>
    /\ selected = NoAsset
    /\ fzfOptions = <<>>
    /\ events = <<>>
    /\ exitCode = -1
    /\ fBytes \in FormatInputs
    /\ fUnitIndex = 0
    /\ fPc = "loop"
    /\ fOut = <<>>

FormatNext == FormatLoopStep \/ FormatReturn

SpecFormat == FormatInit /\ [][FormatNext]_vars

---------------------------------------------------------------------------
(* Vocabulary of the properties, stated without the operators of the model *)

\* t is a substring of s
Contains(s, t) ==
    \E i \in 0..(Len(s) - Len(t)) : SubSeq(s, i + 1, i + Len(t)) = t

\* t is a suffix of s
HasSuffix(s, t) ==
    Len(t) <= Len(s) /\ SubSeq(s, Len(s) - Len(t) + 1, Len(s)) = t

UpperChar(c) ==
    IF \E i \in DOMAIN LowerLetters : LowerLetters[i] = c
    THEN UpperLetters[CHOOSE i \in DOMAIN LowerLetters : LowerLetters[i] = c]
    ELSE c

ToUpperCase(s) == [i \in 1..Len(s) |-> UpperChar(s[i])]

\* the k-th smallest element of a set of indices
Kth(S, k) == CHOOSE i \in S : Cardinality({j \in S : j < i}) = k - 1

\* result is source restricted to the indices idx, in source order
IsOrderedSelection(result, source, idx) ==
    /\ Len(result) = Cardinality(idx)
    /\ \A k \in 1..Len(result) : result[k] = source[Kth(idx, k)]

Range(f) == {f[i] : i \in DOMAIN f}

\* the release arrived with at least one asset, so filterAssets has run
FilterRan == pc \in {"awaitSelector", "awaitDownload", "done"} /\ Len(release) > 0

\* positions in the log of the network requests of one kind ("api" or "asset")
Requests(kind) == {i \in DOMAIN events : events[i].kind = "request" /\ events[i].tag = kind}

\* positions of the attempts to spawn the selector
Spawns == {i \in DOMAIN events : events[i].kind = "spawn"}

\* positions of the completed file writes
Writes == {i \in DOMAIN events : events[i].kind = "write"}

HasLog(tag) == \E i \in DOMAIN events : events[i].kind = "log" /\ events[i].tag = tag

AssetRequests == Requests("asset")

SelectorEvents == {i \in DOMAIN events : events[i].kind = "selector"}

---------------------------------------------------------------------------
(* C1 *)

C1_Wanted ==
    {i \in DOMAIN release :
        \A k \in DOMAIN options.filters :
            Contains(ToLowerCase(release[i].name), ToLowerCase(options.filters[k]))}

\* the same options with every keyword in upper case
C1_UpperOptions ==
    [hasFilters |-> TRUE,
     filters |-> [k \in DOMAIN options.filters |-> ToUpperCase(options.filters[k])]]

\* the same options with every keyword in lower case
C1_LowerOptions ==
    [hasFilters |-> TRUE,
     filters |-> [k \in DOMAIN options.filters |-> ToLowerCase(options.filters[k])]]

\* C1: keyword variant, non-empty filter list: the matched assets are exactly the
\* assets of the release, in release order, whose lowercased name contains every
\* lowercased keyword; writing the keywords in upper or lower case gives the same result.
C1_KeywordFilterExact ==
    (variant = "keyword" /\ FilterRan /\ options.hasFilters /\ Len(options.filters) > 0)
        => /\ IsOrderedSelection(matchedAssets, release, C1_Wanted)
           /\ FilterAssets(release, C1_UpperOptions) = matchedAssets
           /\ FilterAssets(release, C1_LowerOptions) = matchedAssets

\* two keywords, an asset with an upper-case name that holds both and is kept, and an
\* asset that holds only one of them and is dropped
C1_Witness ==
    /\ variant = "keyword" /\ FilterRan /\ options.hasFilters
    /\ Len(options.filters) = 2
    /\ Len(release) = 2 /\ Len(matchedAssets) = 1
    /\ ToLowerCase(matchedAssets[1].name) # matchedAssets[1].name
    /\ \E i \in DOMAIN release :
          /\ i \notin C1_Wanted
          /\ \E k \in DOMAIN options.filters :
                Contains(ToLowerCase(release[i].name), ToLowerCase(options.filters[k]))

---------------------------------------------------------------------------
(* C2 *)

RecognizedSuffixes ==
    { <<".", "z", "i", "p">>, <<".", "t", "a", "r", ".", "g", "z">>, <<".", "e", "x", "e">>,
      <<".", "d", "m", "g">>, <<".", "d", "e", "b">>, <<".", "r", "p", "m">>,
      <<".", "a", "p", "p", "i", "m", "a", "g", "e">> }

ArchTokens ==
    { <<"x", "6", "4">>, <<"a", "m", "d", "6", "4">>, <<"a", "r", "m", "6", "4">>,
      <<"a", "a", "r", "c", "h", "6", "4">>, <<"x", "8", "6", "_", "6", "4">>,
      <<"u", "n", "i", "v", "e", "r", "s", "a", "l">> }

HasRecognizedSuffix(asset) ==
    \E suf \in RecognizedSuffixes : HasSuffix(ToLowerCase(asset.name), suf)

HasArchToken(asset) ==
    \E tok \in ArchTokens : Contains(ToLowerCase(asset.name), tok)

\* C2: keyword variant, empty or absent filter list: the matched assets are exactly the
\* assets of the release, in release order, whose lowercased name ends with a recognized
\* suffix, whether or not the name holds an architecture token.
C2_DefaultHeuristicIsSuffixOnly ==
    (variant = "keyword" /\ FilterRan /\ Len(FiltersOf(options)) = 0)
        => IsOrderedSelection(matchedAssets, release,
               {i \in DOMAIN release : HasRecognizedSuffix(release[i])})

\* no filter, and the heuristic kept one asset with an architecture token and one without
C2_Witness ==
    /\ variant = "keyword" /\ FilterRan /\ Len(FiltersOf(options)) = 0
    /\ Len(matchedAssets) = 2
    /\ HasArchToken(matchedAssets[1])
    /\ ~HasArchToken(matchedAssets[2])

---------------------------------------------------------------------------
(* C3 *)

\* the lines printed by listAvailableAssets, in order
ListedAssets ==
    LET idx == {i \in DOMAIN events : events[i].kind = "log" /\ events[i].tag = "list"}
    IN  [k \in 1..Cardinality(idx) |-> events[Kth(idx, k)].asset]

NoErrorEvent == \A i \in DOMAIN events : events[i].kind # "error"

\* C3: keyword variant, release fetched with assets: no match ends the run with exit
\* status 0, all assets listed, nothing thrown, no selector and no download; one match
\* is requested for download without any selector; two or more matches invoke the
\* selector before any download request.
C3_BranchOnMatchCount ==
    (variant = "keyword" /\ FilterRan)
        => /\ Len(matchedAssets) = 0 =>
                /\ pc = "done" /\ exitCode = 0
                /\ Spawns = {} /\ SelectorEvents = {} /\ AssetRequests = {} /\ Writes = {}
                /\ ListedAssets = release
                /\ NoErrorEvent
           /\ Len(matchedAssets) = 1 =>
                /\ Spawns = {} /\ SelectorEvents = {}
                /\ Cardinality(AssetRequests) = 1
                /\ \A i \in AssetRequests : events[i].asset = matchedAssets[1]
                /\ \A i \in Writes : events[i].asset = matchedAssets[1]
           /\ Len(matchedAssets) >= 2 =>
                /\ Spawns # {}
                /\ \A j \in AssetRequests : \E i \in Spawns : i < j

\* two or more matches, and a download was requested after the selector ran
C3_Witness ==
    /\ variant = "keyword" /\ FilterRan
    /\ Len(matchedAssets) >= 2
    /\ AssetRequests # {}

---------------------------------------------------------------------------
(* C4 *)

SelectorGaveNothing ==
    \/ \E i \in Spawns : events[i].tag = "failed"
    \/ \E i \in SelectorEvents : events[i].tag \in {"nonzero", "empty", "blank"}

\* C4: keyword variant: when the selector cannot be spawned, exits non-zero (which is
\* how a cancel shows) or prints nothing, no asset is selected, no download is requested,
\* no file is written, the cancellation message is printed and the exit status is 0.
C4_SelectorFailureIsNoOp ==
    (variant = "keyword" /\ SelectorGaveNothing)
        => /\ selected = NoAsset
           /\ AssetRequests = {} /\ Writes = {}
           /\ HasLog("cancelled")
           /\ pc = "done" /\ exitCode = 0

\* the selector ran, exited with code 0 and printed nothing
C4_Witness ==
    /\ variant = "keyword"
    /\ \E i \in SelectorEvents : events[i].tag = "empty"
    /\ pc = "done"

---------------------------------------------------------------------------
(* C5 *)

RECURSIVE Segments(_)
\* the pieces of s between its slashes
Segments(s) ==
    IF \A i \in DOMAIN s : s[i] # "/" THEN <<s>>
    ELSE LET p == CHOOSE i \in DOMAIN s : s[i] = "/" /\ \A j \in 1..(i - 1) : s[j] # "/"
         IN  <<SubSeq(s, 1, p - 1)>> \o Segments(SubSeq(s, p + 1, Len(s)))

GithubCom == <<"g", "i", "t", "h", "u", "b", ".", "c", "o", "m">>

\* s holds github.com/<owner>/<repo> with owner and repo non-empty and slash-free
HasRepoSegment(s) ==
    LET seg == Segments(s)
    IN  \E k \in 1..(Len(seg) - 2) :
            /\ HasSuffix(seg[k], GithubCom)
            /\ seg[k + 1] # <<>>
            /\ seg[k + 2] # <<>>

\* C5: a repository URL without a github.com/<owner>/<repo> segment is rejected with the
\* invalid-URL error: the error is the only thing that happens (no request, no selector,
\* no file) and the exit status is 1.
C5_BadUrlRejectedBeforeNetwork ==
    (variant \in {"keyword", "structured"} /\ ~HasRepoSegment(repoUrl) /\ pc # "start")
        => /\ pc = "done" /\ exitCode = 1
           /\ events = <<Ev("error", "invalidUrl", NoAsset)>>
           /\ Requests("api") = {} /\ AssetRequests = {} /\ Spawns = {} /\ Writes = {}

\* a URL that names github.com and an owner but no repository was rejected
C5_Witness ==
    /\ pc = "done"
    /\ ~HasRepoSegment(repoUrl)
    /\ Contains(repoUrl, GithubCom \o <<"/", "o">>)
    /\ exitCode = 1

---------------------------------------------------------------------------
(* C6 *)

FailedResponses ==
    {i \in DOMAIN events : events[i].kind = "response" /\ events[i].tag # "ok"}

\* C6: after a failed or non-2xx response (release metadata or asset download) nothing
\* but the error report follows, the run ends with exit status 1, and each of the two
\* requests is issued at most once per run.
C6_NetworkFailureAborts ==
    /\ Cardinality(Requests("api")) <= 1
    /\ Cardinality(AssetRequests) <= 1
    /\ \A i \in FailedResponses :
          /\ pc = "done" /\ exitCode = 1
          /\ \A j \in (i + 1)..Len(events) : events[j].kind = "error"
          /\ Writes = {}

\* the asset chosen in the selector was requested and the request came back non-2xx
C6_Witness ==
    /\ SelectorEvents # {}
    /\ \E i \in FailedResponses : events[i].tag = "non2xx" /\ events[i].asset # NoAsset

---------------------------------------------------------------------------
(* C8 *)

EffectiveArch == IF options.hasArch THEN options.arch ELSE defaultArchS

EffectiveTypes == IF options.hasFileTypes THEN options.fileTypes ELSE defaultFileTypes

EffectiveNames == IF options.hasFileNames THEN options.fileNames ELSE <<>>

\* the three predicates on the lowercased name, option values compared without case
SatisfiesAll(asset) ==
    LET n == ToLowerCase(asset.name)
    IN  /\ \E i \in DOMAIN EffectiveTypes : HasSuffix(n, ToLowerCase(EffectiveTypes[i]))
        /\ \E i \in DOMAIN EffectiveArch : Contains(n, ToLowerCase(EffectiveArch[i]))
        /\ \/ Len(EffectiveNames) = 0
           \/ \E i \in DOMAIN EffectiveNames : Contains(n, ToLowerCase(EffectiveNames[i]))

Satisfying == {i \in DOMAIN release : SatisfiesAll(release[i])}

\* C8: structured variant: when some asset of the release satisfies all three
\* predicates, exactly one download is requested, for the first such asset in release
\* order, with no selector; no asset failing a predicate is ever requested or written.
C8_FirstStructuredMatchDownloaded ==
    (variant = "structured" /\ FilterRan)
        => /\ Spawns = {} /\ SelectorEvents = {}
           /\ \A i \in AssetRequests \cup Writes : SatisfiesAll(events[i].asset)
           /\ Satisfying # {} =>
                /\ Cardinality(AssetRequests) = 1
                /\ \A i \in AssetRequests \cup Writes :
                      events[i].asset = release[Kth(Satisfying, 1)]

\* two different assets satisfy the predicates and the file of the first was written
C8_Witness ==
    /\ variant = "structured" /\ FilterRan
    /\ Cardinality(Satisfying) >= 2
    /\ release[1] # release[2]
    /\ Writes # {}

---------------------------------------------------------------------------
(* C9 *)

\* C9: keyword variant: when the selector exits with code 0 and prints the label the
\* user chose, the asset requested for download is the asset that label was made from,
\* also when two matched assets have the same label.
C9_ChosenLabelMapsToItsAsset ==
    variant = "keyword" =>
        \A i \in SelectorEvents :
            events[i].tag = "picked" =>
                /\ selected = events[i].asset
                /\ \A j \in AssetRequests : events[j].asset = events[i].asset

\* C9 restricted to matched lists whose labels are pairwise distinct (this holds)
C9_DistinctLabels ==
    (variant = "keyword"
        /\ \A a, b \in DOMAIN fzfOptions : fzfOptions[a] = fzfOptions[b] => a = b)
        => C9_ChosenLabelMapsToItsAsset

---------------------------------------------------------------------------
(* C10 *)

\* C10: a file is written only for an asset that filterAssets returned for the release
\* fetched in this run, after the request for that asset and its 2xx response; a run
\* issues at most one download request and writes at most one file.
C10_WriteOnlyMatchedAfterOk ==
    /\ Cardinality(AssetRequests) <= 1
    /\ Cardinality(Writes) <= 1
    /\ \A i \in AssetRequests : events[i].asset \in Range(matchedAssets)
    /\ Range(matchedAssets) \subseteq Range(release)
    /\ \A w \in Writes :
          /\ events[w].asset \in Range(matchedAssets)
          /\ \E q \in AssetRequests, r \in DOMAIN events :
                /\ q < r /\ r < w
                /\ events[q].asset = events[w].asset
                /\ events[r] = Ev("response", "ok", events[w].asset)
          /\ \E a \in DOMAIN events :
                /\ a < w
                /\ events[a] = Ev("response", "ok", NoAsset)

\* the selector picked the second of several matches and its file was written
C10_Witness ==
    /\ variant = "keyword"
    /\ Len(matchedAssets) >= 2
    /\ \E w \in Writes : events[w].asset = matchedAssets[2] /\ matchedAssets[2] # matchedAssets[1]

---------------------------------------------------------------------------
(* C7, under SpecFormat: the properties read the returned string *)

OutSpace == CHOOSE i \in DOMAIN fOut : fOut[i] = " "

OutNumber == SubSeq(fOut, 1, OutSpace - 1)

OutUnit == SubSeq(fOut, OutSpace + 1, Len(fOut))

IsDigit(c) == \E i \in DOMAIN DigitChars : DigitChars[i] = c

DigitValue(c) == (CHOOSE i \in DOMAIN DigitChars : DigitChars[i] = c) - 1

RECURSIVE ParseNat(_)
ParseNat(ds) ==
    IF ds = <<>> THEN 0
    ELSE 10 * ParseNat(SubSeq(ds, 1, Len(ds) - 1)) + DigitValue(ds[Len(ds)])

\* <digits>.<digit> <unit>, no leading zero
OutWellFormed ==
    /\ Cardinality({i \in DOMAIN fOut : fOut[i] = " "}) = 1
    /\ Len(OutNumber) >= 3
    /\ OutNumber[Len(OutNumber) - 1] = "."
    /\ \A i \in DOMAIN OutNumber : i # Len(OutNumber) - 1 => IsDigit(OutNumber[i])
    /\ Len(OutNumber) > 3 => OutNumber[1] # "0"
    /\ \E i \in DOMAIN units : units[i] = OutUnit

\* the rendered magnitude, in tenths
OutTenths ==
    ParseNat(SubSeq(OutNumber, 1, Len(OutNumber) - 2) \o <<OutNumber[Len(OutNumber)]>>)

\* 0 for B, 1 for KB, 2 for MB, 3 for GB
OutUnitIndex == (CHOOSE i \in DOMAIN units : units[i] = OutUnit) - 1

\* position of the most significant non-zero base-1024 digit (1 for the count 0)
TopDigit(bytes) ==
    IF \A i \in DOMAIN bytes : bytes[i] = 0 THEN 1
    ELSE CHOOSE i \in DOMAIN bytes : bytes[i] # 0 /\ \A j \in DOMAIN bytes : j > i => bytes[j] = 0

\* divisions by 1024 until the value is below 1024 or the unit is GB
ExpectedUnitIndex(bytes) == IF TopDigit(bytes) > 4 THEN 3 ELSE TopDigit(bytes) - 1

\* floor(20480 * bytes / 1024^k) for k <= 3, from the digits d1 (lowest) to d5
Scaled(bytes, k) ==
    LET d(i) == IF i >= 1 THEN bytes[i] ELSE 0
        whole == IF k = 0 THEN d(1) + Kilo * d(2)
                 ELSE IF k = 1 THEN d(2) + Kilo * d(3)
                 ELSE IF k = 2 THEN d(3) + Kilo * d(4)
                 ELSE d(4) + Kilo * d(5)
    IN  20 * Kilo * whole + 20 * d(k) + (20 * (Kilo * d(k - 1) + d(k - 2))) \div (Kilo * Kilo)

\* t tenths is bytes / 1024^k rounded to the nearest tenth, a tie going up
IsNearestTenth(t, bytes, k) ==
    /\ (2 * t - 1) * Kilo <= Scaled(bytes, k)
    /\ Scaled(bytes, k) < (2 * t + 1) * Kilo

BelowFourthPower(bytes) == TopDigit(bytes) <= 4

Str_0_0_B == <<"0", ".", "0", " ", "B">>

Str_1023_0_B == <<"1", "0", "2", "3", ".", "0", " ", "B">>

Str_1_0_KB == <<"1", ".", "0", " ", "K", "B">>

Str_1_5_MB == <<"1", ".", "5", " ", "M", "B">>

Str_1_0_GB == <<"1", ".", "0", " ", "G", "B">>

Str_1024_0_KB == <<"1", "0", "2", "4", ".", "0", " ", "K", "B">>

FormatExamples ==
    /\ fBytes = <<0, 0, 0, 0, 0>> => fOut = Str_0_0_B
    /\ fBytes = <<1023, 0, 0, 0, 0>> => fOut = Str_1023_0_B
    /\ fBytes = <<0, 1, 0, 0, 0>> => fOut = Str_1_0_KB
    /\ fBytes = <<0, 512, 1, 0, 0>> => fOut = Str_1_5_MB
    /\ fBytes = <<0, 0, 0, 1, 0>> => fOut = Str_1_0_GB

\* the part of C7 that the code satisfies for every byte count
FormatUnitAndRounding ==
    /\ OutWellFormed
    /\ OutUnitIndex = ExpectedUnitIndex(fBytes)
    /\ OutUnitIndex = fUnitIndex
    /\ IsNearestTenth(OutTenths, fBytes, OutUnitIndex)
    /\ FormatExamples

\* C7 as stated: unit by repeated division, one fractional digit, the examples, and a
\* rendered magnitude below 1024 for every byte count.
C7_RenderedBelowKilo ==
    fPc = "done" => (FormatUnitAndRounding /\ OutTenths < 10 * Kilo)

\* C7 as amended: unit by repeated division, one fractional digit rounded to nearest,
\* the examples; for a byte count below 1024^4 the magnitude before rounding is below
\* 1024 and the rendered magnitude is at most 1024.0; from 1024^4 on the unit is GB and
\* the rendered magnitude is 1024.0 or more.
C7_FormatSizeAmended ==
    fPc = "done" =>
        /\ FormatUnitAndRounding
        /\ BelowFourthPower(fBytes) =>
              /\ Scaled(fBytes, OutUnitIndex) < 20 * Kilo * Kilo
              /\ OutTenths <= 10 * Kilo
        /\ ~BelowFourthPower(fBytes) =>
              /\ OutUnit = units[4]
              /\ OutTenths >= 10 * Kilo

\* 1048575 bytes went through one division and came out as 1024.0 KB
C7_Witness ==
    /\ fPc = "done"
    /\ fBytes = <<1023, 1023, 0, 0, 0>>
    /\ fUnitIndex = 1
    /\ fOut = Str_1024_0_KB

============================================================================
